---- MODULE Spec2Model ----
(***************************************************************************)
(* Model of the keyword-to-collection pipeline: the workbook processor     *)
(* (app/services/excel_processor.py), the content generator               *)
(* (app/services/openai_client.py) and the prompt manager                  *)
(* (app/utils/prompt_manager.py).                                          *)
(*                                                                         *)
(* Text is a sequence of one-character strings; a DataFrame cell is a      *)
(* record that is either NaN or a text; a paragraph is a sequence of       *)
(* segments (tag brackets, whitespace, runs of words).                     *)
(***************************************************************************)
EXTENDS Integers, Sequences, FiniteSets, TLC

\* ------------------------------------------------------------------ text

\* str.lower() on the alphabet of the model.
LowerChar(c) ==
    CASE c = "A" -> "a"
      [] c = "B" -> "b"
      [] c = "N" -> "n"
      [] c = "O" -> "o"
      [] c = "S" -> "s"
      [] c = "H" -> "h"
      [] OTHER -> c

Lower(s) == [i \in 1..Len(s) |-> LowerChar(s[i])]

IsSpace(c) == c = " "

\* str.strip(): leading and trailing whitespace removed.
Strip(s) ==
    LET ix == {i \in 1..Len(s) : ~IsSpace(s[i])}
    IN IF ix = {} THEN <<>>
       ELSE SubSeq(s, CHOOSE i \in ix : \A j \in ix : i <= j,
                      CHOOSE i \in ix : \A j \in ix : j <= i)

\* str.rstrip(): trailing whitespace removed.
RStrip(s) ==
    LET ix == {i \in 1..Len(s) : ~IsSpace(s[i])}
    IN IF ix = {} THEN <<>>
       ELSE SubSeq(s, 1, CHOOSE i \in ix : \A j \in ix : j <= i)

RECURSIVE Repeat(_, _)
Repeat(c, n) == IF n <= 0 THEN <<>> ELSE <<c>> \o Repeat(c, n - 1)

\* ----------------------------------------------------------------- cells

\* A DataFrame cell: float NaN (a blank spreadsheet cell) or a string.
NaN == [nan |-> TRUE, s |-> <<>>]
Str(s) == [nan |-> FALSE, s |-> s]
Blank == Str(<<>>)

\* str(x)
PyStr(cell) == IF cell.nan THEN <<"n", "a", "n">> ELSE cell.s

\* bool(x): NaN is a non-zero float, hence true; a string is true iff non-empty.
Truthy(cell) == cell.nan \/ cell.s # <<>>

\* str(row.get(col, "") or "")
GetStr(row, col) == PyStr(IF Truthy(row[col]) THEN row[col] ELSE Blank)

\* ------------------------------------------------------- workbook on disk

REQUIRED_COLUMNS ==
    [keyword |-> "keywords", h2_headline |-> "<h2> headline",
     h3_headline |-> "<h3> headline", h2_override |-> "h2_overrides",
     h3_override |-> "h3_overrides", collection_html |-> "collection_html",
     processed_at |-> "_processed_at", row_hash |-> "_row_hash"]

H2_TEXT_COLUMN == "relevant text 2"
H3_TEXT_COLUMN == "relevant text 3"
LEGACY_TEXT_COLUMN == "relevant text 1"

RequiredAliases == {REQUIRED_COLUMNS[k] : k \in DOMAIN REQUIRED_COLUMNS}

\* Strings the spreadsheet reader turns into NaN (pandas' default na_values;
\* of these the alphabet of the model can spell "" and "nan").
NAStrings == {<<>>, <<"n", "a", "n">>}

\* pd.read_excel: a table is a sequence of rows, each a function from the
\* sheet's column names to cells; empty and NA-spelling cells read as NaN.
ReadCell(text) ==
    IF text \in NAStrings THEN NaN ELSE Str(text)

ReadExcel(sheet) ==
    [i \in 1..Len(sheet) |-> [c \in DOMAIN sheet[i] |-> ReadCell(sheet[i][c])]]

\* DataFrame.to_excel(index=False): NaN is written as an empty cell.
WriteCell(cell) ==
    IF cell.nan THEN <<>> ELSE cell.s

WriteExcel(frame) ==
    [i \in 1..Len(frame) |-> [c \in DOMAIN frame[i] |-> WriteCell(frame[i][c])]]

\* _normalize_columns on one row: the legacy text column is renamed, and
\* every missing required column is created holding "".
NormalizeRow(row) ==
    LET rename == LEGACY_TEXT_COLUMN \in DOMAIN row /\ H2_TEXT_COLUMN \notin DOMAIN row
        cols1 == IF rename
                 THEN (DOMAIN row \ {LEGACY_TEXT_COLUMN}) \cup {H2_TEXT_COLUMN}
                 ELSE DOMAIN row
        val1(c) == IF rename /\ c = H2_TEXT_COLUMN THEN row[LEGACY_TEXT_COLUMN] ELSE row[c]
        cols2 == cols1 \cup RequiredAliases \cup {H2_TEXT_COLUMN, H3_TEXT_COLUMN}
    IN [c \in cols2 |-> IF c \in cols1 THEN val1(c) ELSE Blank]

NormalizeColumns(frame) == [i \in 1..Len(frame) |-> NormalizeRow(frame[i])]

\* _row_hash: SHA-256 of the canonical JSON of the three stripped inputs,
\* modelled as the serialization itself (a collision-free digest).
RowHash(row) ==
    <<"#">> \o Strip(GetStr(row, REQUIRED_COLUMNS.keyword))
      \o <<"|">> \o Strip(GetStr(row, REQUIRED_COLUMNS.h2_override))
      \o <<"|">> \o Strip(GetStr(row, REQUIRED_COLUMNS.h3_override))

\* -------------------------------------------------------------- headings

MaxHeadingLen == 60

\* the cut without the rstrip
TruncateHeadingNoRstrip(cleaned) ==
    IF Len(cleaned) > MaxHeadingLen
    THEN SubSeq(cleaned, 1, MaxHeadingLen)
    ELSE cleaned

\* _validate_heading(heading, keyword, forbidden): "" is the invalid result.
TruncateHeading(cleaned) ==
    IF Len(cleaned) > MaxHeadingLen
    THEN RStrip(SubSeq(cleaned, 1, MaxHeadingLen))
    ELSE cleaned

ValidateHeading(heading, keyword, forbidden) ==
    LET cleaned == Strip(heading)
    IN IF cleaned = <<>> THEN <<>>
       ELSE IF Lower(cleaned) \in forbidden THEN <<>>
       ELSE TruncateHeading(cleaned)

\* an H3 set that leaves out the H2 heading
ForbiddenH3KeywordOnly(keyword, h2) == {Lower(keyword)}

\* forbidden sets as the two callers build them
ForbiddenH2(keyword) == {Lower(keyword)}
ForbiddenH3(keyword, h2) == {Lower(keyword), Lower(h2)}

\* ------------------------------------------------------------ paragraphs

\* A paragraph text is a sequence of segments: "lt" is the character <,
\* "gt" the character >, "ws" a run of whitespace, "w" a run of n words
\* separated by single blanks whose first character is c.
Seg(k, n, c) == [k |-> k, n |-> n, c |-> c]
LT == Seg("lt", 0, "<")
GT == Seg("gt", 0, ">")
WS == Seg("ws", 0, " ")
Words(n) == Seg("w", n, "x")
POpen == <<LT, Seg("w", 1, "p"), GT>>
PClose == <<LT, Seg("w", 1, "/"), GT>>

\* str.strip() on a paragraph text
StripSegs(t) ==
    LET ix == {i \in 1..Len(t) : t[i].k # "ws"}
    IN IF ix = {} THEN <<>>
       ELSE SubSeq(t, CHOOSE i \in ix : \A j \in ix : i <= j,
                      CHOOSE i \in ix : \A j \in ix : j <= i)

\* cleaned.lower().startswith("<p")
StartsWithP(t) ==
    Len(t) >= 2 /\ t[1].k = "lt" /\ t[2].k = "w" /\ t[2].c \in {"p", "P"}

\* _normalize_paragraph
NormalizeParagraph(paragraph) ==
    LET cleaned == StripSegs(paragraph)
    IN IF StartsWithP(cleaned) THEN cleaned ELSE POpen \o cleaned \o PClose

\* _strip_html, the character loop: < opens a tag and leaves a blank, >
\* closes it, everything inside a tag is dropped.
RECURSIVE StripLoop(_, _, _)
StripLoop(t, i, in_tag) ==
    IF i > Len(t) THEN <<>>
    ELSE IF t[i].k = "lt" THEN <<WS>> \o StripLoop(t, i + 1, TRUE)
    ELSE IF t[i].k = "gt" THEN StripLoop(t, i + 1, FALSE)
    ELSE IF ~in_tag THEN <<t[i]>> \o StripLoop(t, i + 1, in_tag)
    ELSE StripLoop(t, i + 1, in_tag)

StripHtml(html_fragment) == StripLoop(html_fragment, 1, FALSE)

\* len(text.split()): word runs that touch (no whitespace between) join
\* their neighbouring words into one.
RECURSIVE SplitCount(_, _)
SplitCount(t, i) ==
    IF i > Len(t) THEN 0
    ELSE IF t[i].k # "w" THEN SplitCount(t, i + 1)
    ELSE t[i].n + SplitCount(t, i + 1)
         - (IF i < Len(t) /\ t[i + 1].k = "w" THEN 1 ELSE 0)

WordCount(paragraph) == SplitCount(StripHtml(paragraph), 1)

\* int(target_words * x) for a double x: x is given as the limbs (base
\* 2^13, least significant first, the last limb unbounded) of x * 2^52.
\* The product is exact in limbs; the 53-bit result of the IEEE-754
\* multiplication is the product rounded to nearest, ties to even, and int()
\* drops the fraction.
LimbBase == 2 * 4096
Double_0_75 == <<0, 0, 0, 6144>>
Double_1_15 == <<1638, 4915, 6553, 9420>>

RECURSIVE BitLength(_)
BitLength(n) == IF n = 0 THEN 0 ELSE 1 + BitLength(n \div 2)

RECURSIVE Pow2(_)
Pow2(n) == IF n = 0 THEN 1 ELSE 2 * Pow2(n - 1)

IntOfProduct(tw, x) ==
    LET d0 == tw * x[1]
        d1 == tw * x[2] + (d0 \div LimbBase)
        d2 == tw * x[3] + (d1 \div LimbBase)
        d3 == tw * x[4] + (d2 \div LimbBase)
        f0 == d0 % LimbBase
        f1 == d1 % LimbBase
        f2 == d2 % LimbBase
        f3 == d3 % LimbBase
        whole == d3 \div LimbBase
        drop == IF whole = 0 THEN 0 ELSE BitLength(whole) - 1
        rem == f0 % Pow2(drop)
        kept == f0 \div Pow2(drop)
        up == drop > 0
              /\ (2 * rem > Pow2(drop) \/ (2 * rem = Pow2(drop) /\ kept % 2 = 1))
        carry == up /\ f1 = LimbBase - 1 /\ f2 = LimbBase - 1 /\ f3 = LimbBase - 1
                    /\ kept = Pow2(13 - drop) - 1
    IN whole + (IF carry THEN 1 ELSE 0)

LowerBound(target_words) == IntOfProduct(target_words, Double_0_75)
UpperBound(target_words) == IntOfProduct(target_words, Double_1_15)

\* the acceptance test of _build_paragraph
WithinBounds(word_count, target_words) ==
    LowerBound(target_words) <= word_count /\ word_count <= UpperBound(target_words)

MaxAttempts == 3

\* One pass of the retry loop of _build_paragraph on the generator's
\* response: the normalized paragraph, and whether the loop returns it
\* (accepted, or the last attempt falling out of the loop).
ParagraphAttempt(response, target_words, attempt) ==
    LET paragraph == NormalizeParagraph(response)
        accepted == WithinBounds(WordCount(paragraph), target_words)
    IN [paragraph |-> paragraph, accepted |-> accepted,
        returned |-> accepted \/ attempt + 1 >= MaxAttempts]

\* _compose_html: four lines
ComposeHtml(h2, h2_p, h3, h3_p) ==
    << <<"<h2>">> \o h2 \o <<"</h2>">>, StripSegs(h2_p),
       <<"<h3>">> \o h3 \o <<"</h3>">>, StripSegs(h3_p) >>

\* ------------------------------------------------------ content generator

DEFAULT_PROMPTS ==
    [h2_heading |-> <<"Given the main collection keyword: {keyword}. ...">>,
     paragraph |-> <<"Write an informative, customer-friendly paragraph (~{target_words} words) ...">>,
     h3_heading |-> <<"For the main keyword {keyword}, suggest another complementary subtopic ...">>]

PromptKeys == DOMAIN DEFAULT_PROMPTS

\* The prompt literals of generate_h2_heading, generate_paragraph and
\* generate_h3_heading (the same texts as DEFAULT_PROMPTS).
GeneratorTemplate(key) == DEFAULT_PROMPTS[key]

\* str.format: the text sent is the template with the variables bound.
GeneratorRequest(key, variables) ==
    [key |-> key, template |-> GeneratorTemplate(key), variables |-> variables]

\* _complete: response.output_text.strip()
CompleteHeading(output_text) == Strip(output_text)
CompleteParagraph(output_text) == StripSegs(output_text)

\* ----------------------------------------------------------------- state

VARIABLES
    apiKey,           \* settings.openai_api_key is set
    creds,            \* settings.shopify_store_domain and shopify_access_token are set
    service,          \* what the text-generation service answers to each request
    inputFile,        \* the uploaded sheet
    output,           \* the sheet the last run wrote (<<>>: none, or a run is under way)
    written,          \* the number of sheets written to output_dir
    second,           \* the wall clock, in whole seconds
    input_path,       \* the name of the sheet the current run read
    output_path,      \* the name of the newest sheet of output_dir
    outdir,           \* the names of the sheets in output_dir
    result,           \* <<the ExcelProcessingResult the last run returned>>
    rejection,        \* <<the HTTP error the last request was refused with>>
    now,              \* the clock
    runNo,            \* runs of process_file started so far
    pc,               \* where process_file is
    source,           \* the sheet the current run read
    source_errors,    \* the error list of the run that wrote that sheet
    push,             \* the processor has a shopify_client_factory
    df, idx, processed, skipped, shopify_updates, errors,
    generator,        \* self._generator is set
    h2_heading, h2_paragraph, h3_heading, h3_paragraph, attempt,
    genRows,          \* rows for which the run called the Content Generator
    shopRows,         \* rows for which the run called the Storefront Client
    outcome,          \* what the run did with each row it has handled
    prompt_file,      \* PromptManager: the override store on disk
    overrides,        \* PromptManager._overrides, the cache
    request,          \* <<the last request built by the Content Generator>>
    resolved,         \* <<what the last get_prompt returned>>
    saves,            \* save_overrides calls so far
    posted,           \* the dict the last save_overrides call was given
    pm_call,          \* the last PromptManager call: what it raised or returned
    probe             \* a call of _validate_heading or _build_paragraph on its own

settingsVars == <<apiKey, creds>>
promptVars == <<prompt_file, overrides, request, resolved, saves, posted, pm_call>>
envVars == <<settingsVars, service, promptVars, probe>>
fileVars == <<inputFile, output, written, second, input_path, output_path, outdir,
             result, rejection, now, runNo>>
localVars == <<h2_heading, h2_paragraph, h3_heading, h3_paragraph, attempt>>
runVars == <<pc, source, source_errors, push, df, idx, processed, skipped, shopify_updates,
             errors, generator, genRows, shopRows, outcome>>

\* ---------------------------------------------------------------- inputs

MaxRuns == 2

KW == <<"a">>
NanText == <<"n", "a", "n">>
LongHeading == Repeat("b", MaxHeadingLen + 1)

\* what the text-generation service may answer to a heading request
HeadingResponses == {<<>>, <<"A">>, <<" ", "b">>, LongHeading}

\* what it may answer to a paragraph request
ParagraphResponses == {<<WS, Words(150)>>, POpen \o <<Words(231)>> \o PClose}

\* a service that may answer anything of the above, or fail
FreeService ==
    [h2 |-> HeadingResponses, h3 |-> HeadingResponses, paragraph |-> ParagraphResponses,
     fails |-> TRUE]

\* a stubbed generator: one fixed heading per kind of heading request, a
\* 200-word paragraph for every paragraph request, no failure
SummerDresses ==
    <<"s", "u", "m", "m", "e", "r", " ", "d", "r", "e", "s", "s", "e", "s">>
BeachOutings == <<"B", "e", "a", "c", "h", " ", "O", "u", "t", "i", "n", "g", "s">>
SunHats == <<"S", "u", "n", " ", "H", "a", "t", "s">>
FixedService(h2, h3) ==
    [h2 |-> {h2}, h3 |-> {h3}, paragraph |-> {<<Words(200)>>}, fails |-> FALSE]

\* a row of a sheet that holds only the keyword column
KeywordRow(k) == [keywords |-> k]

\* a row of a sheet that also holds the two override columns
OverrideRow(h2o, h3o) == [keywords |-> KW, h2_overrides |-> h2o, h3_overrides |-> h3o]

KeywordRows == {KeywordRow(k) : k \in {KW, <<>>, <<" ">>}}

OverrideRows ==
    {OverrideRow(<<>>, <<>>), OverrideRow(<<"b">>, <<"a", "b">>),
     OverrideRow(<<"A">>, <<"b">>), OverrideRow(<<" ">>, <<" ">>),
     OverrideRow(<<"b">>, <<"B">>)}

\* the uploads: every one-row sheet, and two-row sheets of both layouts
InputSheets ==
    {<<r>> : r \in KeywordRows \cup OverrideRows}
      \cup {<<KeywordRow(KW), KeywordRow(<<>>)>>, <<KeywordRow(<<" ">>), KeywordRow(KW)>>}
      \cup {<<OverrideRow(<<"b">>, <<"a", "b">>), OverrideRow(<<"A">>, <<"b">>)>>}

\* a run's surroundings: the sheet uploaded and the service behind the
\* generator
Scenarios ==
    {[sheet |-> sheet, service |-> FreeService] : sheet \in InputSheets}
      \cup {[sheet |-> <<KeywordRow(SummerDresses)>>,
              service |-> FixedService(BeachOutings, h3)] : h3 \in {BeachOutings, SunHats}}

NoText == <<>>

\* no run of process_file has started
InitProcessor ==
    /\ output = <<>>
    /\ written = 0
    /\ second = 0
    /\ input_path = <<>>
    /\ output_path = <<>>
    /\ outdir = {}
    /\ result = <<>>
    /\ rejection = <<>>
    /\ now = 0
    /\ runNo = 0
    /\ pc = "idle"
    /\ source = <<>>
    /\ source_errors = <<>>
    /\ push = FALSE
    /\ df = <<>>
    /\ idx = 1
    /\ processed = 0
    /\ skipped = 0
    /\ shopify_updates = 0
    /\ errors = <<>>
    /\ generator = FALSE
    /\ h2_heading = NoText
    /\ h2_paragraph = NoText
    /\ h3_heading = NoText
    /\ h3_paragraph = NoText
    /\ attempt = 0
    /\ genRows = {}
    /\ shopRows = {}
    /\ outcome = <<>>

\* the prompt manager as constructed: nothing saved, nothing loaded
NoFile == [exists |-> FALSE, json |-> "object", data |-> {}]
NotLoaded == [loaded |-> FALSE, map |-> {}]
NoPromptCall == [fn |-> "", raised |-> "", value |-> {}]

InitPrompts ==
    /\ prompt_file = NoFile
    /\ overrides = NotLoaded
    /\ request = <<>>
    /\ resolved = <<>>
    /\ saves = 0
    /\ posted = {}
    /\ pm_call = NoPromptCall

Init ==
    /\ apiKey \in BOOLEAN
    /\ creds \in BOOLEAN
    /\ \E sc \in Scenarios : inputFile = sc.sheet /\ service = sc.service
    /\ InitProcessor
    /\ InitPrompts
    /\ probe = <<>>

\* ----------------------------------------------------------- process_file

MsgNoH2 == "Unable to produce valid H2 heading"
MsgNoH3 == "Unable to produce valid H3 heading"
MsgNoKey == "OPENAI_API_KEY is missing. Set it before generating content."
MsgGenerate == "text-generation request failed"
MsgUpsert == "storefront request failed"

\* keyword = str(row["keywords"]).strip()
Keyword(row) == Strip(PyStr(row[REQUIRED_COLUMNS.keyword]))

\* a test that forgets the missing-value marker
BlankKeywordEmptyOnly(keyword) == keyword = <<>>

\* not keyword or keyword.lower() == "nan"
BlankKeyword(keyword) == keyword = <<>> \/ Lower(keyword) = NanText

\* str(row.get(column, "") or "").strip()
Override(row, column) == Strip(GetStr(row, column))

\* the shortcut taken when the stored HTML is empty instead of non-empty
AlreadyProcessedEmptyHtml(row) ==
    /\ GetStr(row, REQUIRED_COLUMNS.row_hash) = RowHash(row)
    /\ GetStr(row, REQUIRED_COLUMNS.collection_html) = <<>>

\* existing_hash == target_hash and existing_html.strip()
AlreadyProcessed(row) ==
    /\ GetStr(row, REQUIRED_COLUMNS.row_hash) = RowHash(row)
    /\ GetStr(row, REQUIRED_COLUMNS.collection_html) # <<>>

Stamp(t) == <<ToString(t)>>

\* The workbooks a run can be given: the upload (as often as it is asked
\* for: process_latest takes the newest sheet of input_dir each time), or
\* the newest sheet of output_dir handed back in under its name.
UploadPath == <<"upload">>
Workbooks ==
    {[path |-> UploadPath, sheet |-> inputFile]}
      \cup (IF output = <<>> THEN {} ELSE {[path |-> output_path, sheet |-> output]})

\* output_dir / f"{input_path.stem}__{timestamp}.xlsx", timestamp to the second
OutputPath(path, t) == Append(path, t)

ResetLocals ==
    /\ h2_heading' = NoText
    /\ h2_paragraph' = NoText
    /\ h3_heading' = NoText
    /\ h3_paragraph' = NoText
    /\ attempt' = 0

\* continue: the loop goes on with the next row
NextRow(what) ==
    /\ outcome' = Append(outcome, what)
    /\ idx' = idx + 1
    /\ pc' = "loop"
    /\ ResetLocals

\* a handler that records the error and lets it end the run
RowErrorAborts(message) ==
    /\ errors' = Append(errors, [index |-> idx - 1, keyword |-> Keyword(df[idx]),
                                 message |-> message])
    /\ outcome' = Append(outcome, "error")
    /\ idx' = idx + 1
    /\ pc' = "idle"
    /\ ResetLocals
    /\ UNCHANGED <<df, processed, skipped, shopify_updates>>

\* a handler under which the H2 heading was written to the row as soon as
\* it was resolved
RowErrorKeepsH2(message) ==
    /\ errors' = Append(errors, [index |-> idx - 1, keyword |-> Keyword(df[idx]),
                                 message |-> message])
    /\ NextRow("error")
    /\ df' = IF h2_heading = NoText THEN df
             ELSE [df EXCEPT ![idx][REQUIRED_COLUMNS.h2_headline] = Str(h2_heading)]
    /\ UNCHANGED <<processed, skipped, shopify_updates>>

\* except Exception as exc: errors.append(...)
RowError(message) ==
    /\ errors' = Append(errors, [index |-> idx - 1, keyword |-> Keyword(df[idx]),
                                 message |-> message])
    /\ NextRow("error")
    /\ UNCHANGED <<df, processed, skipped, shopify_updates>>

\* process_latest / process_upload asked to push without storefront
\* credentials: _create_processor raises HTTP 400. process_upload has
\* stored its upload in input_dir by then (saved).
RejectPush(upload) ==
    /\ pc = "idle"
    /\ ~creds
    /\ rejection' = <<[status |-> 400, saved |-> upload]>>
    /\ UNCHANGED <<envVars, inputFile, output, written, second, input_path, output_path,
                   outdir, result, now, runNo, localVars, runVars>>

\* a factory that does not look at the credentials
StartRunUnchecked(p) ==
    /\ pc = "idle"
    /\ runNo < MaxRuns
    /\ runNo' = runNo + 1
    /\ now' = now + 1
    /\ push' = p
    /\ \E w \in Workbooks :
         /\ input_path' = w.path
         /\ source_errors' = IF w.path = UploadPath THEN <<>> ELSE result[1].errors
         /\ source' = w.sheet
         /\ df' = NormalizeColumns(ReadExcel(w.sheet))
    /\ idx' = 1
    /\ processed' = 0
    /\ skipped' = 0
    /\ shopify_updates' = 0
    /\ errors' = <<>>
    /\ generator' = FALSE
    /\ genRows' = {}
    /\ shopRows' = {}
    /\ outcome' = <<>>
    /\ pc' = "loop"
    /\ ResetLocals
    /\ output' = <<>>
    /\ result' = <<>>
    /\ rejection' = <<>>
    /\ UNCHANGED <<envVars, inputFile, written, second, output_path, outdir>>

\* _create_processor(p) and the head of process_file: read_excel,
\* _normalize_columns, the counters.
StartRun(p) ==
    /\ pc = "idle"
    /\ runNo < MaxRuns
    /\ p => creds
    /\ runNo' = runNo + 1
    /\ now' = now + 1
    /\ push' = p
    /\ \E w \in Workbooks :
         /\ input_path' = w.path
         /\ source_errors' = IF w.path = UploadPath THEN <<>> ELSE result[1].errors
         /\ source' = w.sheet
         /\ df' = NormalizeColumns(ReadExcel(w.sheet))
    /\ idx' = 1
    /\ processed' = 0
    /\ skipped' = 0
    /\ shopify_updates' = 0
    /\ errors' = <<>>
    /\ generator' = FALSE
    /\ genRows' = {}
    /\ shopRows' = {}
    /\ outcome' = <<>>
    /\ pc' = "loop"
    /\ ResetLocals
    /\ output' = <<>>
    /\ result' = <<>>
    /\ rejection' = <<>>
    /\ UNCHANGED <<envVars, inputFile, written, second, output_path, outdir>>

InLoop == pc = "loop" /\ idx <= Len(df)

\* lines 83-86
SkipBlankKeyword ==
    /\ InLoop
    /\ BlankKeyword(Keyword(df[idx]))
    /\ skipped' = skipped + 1
    /\ NextRow("skipped")
    /\ UNCHANGED <<envVars, fileVars, source, source_errors, push, df, processed,
                   shopify_updates, errors, generator, genRows, shopRows>>

\* lines 88-94
SkipAlreadyProcessed ==
    /\ InLoop
    /\ ~BlankKeyword(Keyword(df[idx]))
    /\ AlreadyProcessed(df[idx])
    /\ skipped' = skipped + 1
    /\ NextRow("skipped")
    /\ UNCHANGED <<envVars, fileVars, source, source_errors, push, df, processed,
                   shopify_updates, errors, generator, genRows, shopRows>>

\* line 96: the row enters the try block
EnterRow ==
    /\ InLoop
    /\ ~BlankKeyword(Keyword(df[idx]))
    /\ ~AlreadyProcessed(df[idx])
    /\ pc' = "h2"
    /\ UNCHANGED <<envVars, fileVars, localVars, source, source_errors, push, df, idx,
                   processed, skipped, shopify_updates, errors, generator,
                   genRows, shopRows, outcome>>

rowFrame == <<envVars, fileVars, source, source_errors, push, shopRows>>

\* the row is about to use the Content Generator
AtGeneratorCall ==
    CASE pc \in {"p2", "p3"} -> TRUE
      [] pc = "h2" -> Override(df[idx], REQUIRED_COLUMNS.h2_override) = <<>>
      [] pc = "h3" -> Override(df[idx], REQUIRED_COLUMNS.h3_override) = <<>>
      [] OTHER -> FALSE

\* _ensure_generator: the factory raises without an API key
GeneratorMissing ==
    /\ AtGeneratorCall
    /\ ~apiKey
    /\ RowError(MsgNoKey)
    /\ UNCHANGED <<rowFrame, generator, genRows>>

\* a generate_* call raises (the remote call fails)
GeneratorFails ==
    /\ AtGeneratorCall
    /\ apiKey
    /\ service.fails
    /\ generator' = TRUE
    /\ genRows' = genRows \cup {idx}
    /\ RowError(MsgGenerate)
    /\ UNCHANGED rowFrame

\* _build_h2_heading, the override branch
BuildH2Override ==
    /\ pc = "h2"
    /\ Override(df[idx], REQUIRED_COLUMNS.h2_override) # <<>>
    /\ h2_heading' = ValidateHeading(Override(df[idx], REQUIRED_COLUMNS.h2_override),
                                     Keyword(df[idx]), ForbiddenH2(Keyword(df[idx])))
    /\ pc' = "p2"
    /\ UNCHANGED <<rowFrame, outcome, h2_paragraph, h3_heading, h3_paragraph, attempt, df, idx,
                   processed, skipped, shopify_updates, errors, generator, genRows>>

\* _build_h2_heading, one pass of the generator loop
BuildH2Generate ==
    /\ pc = "h2"
    /\ Override(df[idx], REQUIRED_COLUMNS.h2_override) = <<>>
    /\ apiKey
    /\ generator' = TRUE
    /\ genRows' = genRows \cup {idx}
    /\ \E output_text \in service.h2 :
         LET heading == ValidateHeading(CompleteHeading(output_text), Keyword(df[idx]),
                                        ForbiddenH2(Keyword(df[idx])))
         IN IF heading # <<>>
            THEN /\ h2_heading' = heading
                 /\ attempt' = 0
                 /\ pc' = "p2"
                 /\ UNCHANGED <<h2_paragraph, h3_heading, h3_paragraph, df, idx,
                                processed, skipped, shopify_updates, errors, outcome>>
            ELSE IF attempt + 1 < MaxAttempts
            THEN /\ attempt' = attempt + 1
                 /\ UNCHANGED <<pc, h2_heading, h2_paragraph, h3_heading, h3_paragraph,
                                df, idx, processed, skipped, shopify_updates, errors,
                                outcome>>
            ELSE RowError(MsgNoH2)
    /\ UNCHANGED rowFrame

\* a paragraph loop that raises when its last pass is out of bounds, as the
\* heading loops do
BuildH2ParagraphRaises ==
    /\ pc = "p2"
    /\ apiKey
    /\ generator' = TRUE
    /\ genRows' = genRows \cup {idx}
    /\ \E output_text \in service.paragraph :
         LET r == ParagraphAttempt(CompleteParagraph(output_text), 200, attempt)
         IN IF r.accepted
            THEN /\ h2_paragraph' = r.paragraph
                 /\ attempt' = 0
                 /\ pc' = "h3"
                 /\ UNCHANGED <<h2_heading, h3_heading, h3_paragraph, df, idx, processed,
                                skipped, shopify_updates, errors, outcome>>
            ELSE IF r.returned
            THEN RowError("Unable to produce valid paragraph")
            ELSE /\ attempt' = attempt + 1
                 /\ UNCHANGED <<pc, h2_heading, h2_paragraph, h3_heading, h3_paragraph, df,
                                idx, processed, skipped, shopify_updates, errors, outcome>>
    /\ UNCHANGED rowFrame

\* _build_paragraph(keyword, h2_heading, 200), one pass of the loop
BuildH2Paragraph ==
    /\ pc = "p2"
    /\ apiKey
    /\ generator' = TRUE
    /\ genRows' = genRows \cup {idx}
    /\ \E output_text \in service.paragraph :
         LET r == ParagraphAttempt(CompleteParagraph(output_text), 200, attempt)
         IN IF r.returned
            THEN /\ h2_paragraph' = r.paragraph
                 /\ attempt' = 0
                 /\ pc' = "h3"
                 /\ UNCHANGED <<h2_heading, h3_heading, h3_paragraph>>
            ELSE /\ attempt' = attempt + 1
                 /\ UNCHANGED <<pc, h2_heading, h2_paragraph, h3_heading, h3_paragraph>>
    /\ UNCHANGED <<rowFrame, df, idx, processed, skipped, shopify_updates, errors,
                   outcome>>

\* _build_h3_heading, the override branch
BuildH3Override ==
    /\ pc = "h3"
    /\ Override(df[idx], REQUIRED_COLUMNS.h3_override) # <<>>
    /\ h3_heading' = ValidateHeading(Override(df[idx], REQUIRED_COLUMNS.h3_override),
                                     Keyword(df[idx]),
                                     ForbiddenH3(Keyword(df[idx]), h2_heading))
    /\ pc' = "p3"
    /\ UNCHANGED <<rowFrame, outcome, h2_heading, h2_paragraph, h3_paragraph, attempt, df, idx,
                   processed, skipped, shopify_updates, errors, generator, genRows>>

\* _build_h3_heading, one pass of the generator loop
BuildH3Generate ==
    /\ pc = "h3"
    /\ Override(df[idx], REQUIRED_COLUMNS.h3_override) = <<>>
    /\ apiKey
    /\ generator' = TRUE
    /\ genRows' = genRows \cup {idx}
    /\ \E output_text \in service.h3 :
         LET heading == ValidateHeading(CompleteHeading(output_text), Keyword(df[idx]),
                                        ForbiddenH3(Keyword(df[idx]), h2_heading))
         IN IF heading # <<>>
            THEN /\ h3_heading' = heading
                 /\ attempt' = 0
                 /\ pc' = "p3"
                 /\ UNCHANGED <<h2_heading, h2_paragraph, h3_paragraph, df, idx,
                                processed, skipped, shopify_updates, errors, outcome>>
            ELSE IF attempt + 1 < MaxAttempts
            THEN /\ attempt' = attempt + 1
                 /\ UNCHANGED <<pc, h2_heading, h2_paragraph, h3_heading, h3_paragraph,
                                df, idx, processed, skipped, shopify_updates, errors,
                                outcome>>
            ELSE RowError(MsgNoH3)
    /\ UNCHANGED rowFrame

\* _build_paragraph(keyword, h3_heading, 150), one pass of the loop
BuildH3Paragraph ==
    /\ pc = "p3"
    /\ apiKey
    /\ generator' = TRUE
    /\ genRows' = genRows \cup {idx}
    /\ \E output_text \in service.paragraph :
         LET r == ParagraphAttempt(CompleteParagraph(output_text), 150, attempt)
         IN IF r.returned
            THEN /\ h3_paragraph' = r.paragraph
                 /\ attempt' = 0
                 /\ pc' = "commit"
                 /\ UNCHANGED <<h2_heading, h2_paragraph, h3_heading>>
            ELSE /\ attempt' = attempt + 1
                 /\ UNCHANGED <<pc, h2_heading, h2_paragraph, h3_heading, h3_paragraph>>
    /\ UNCHANGED <<rowFrame, df, idx, processed, skipped, shopify_updates, errors,
                   outcome>>

\* lines 111-119: the seven writes into the row
CommittedRow(row, h2, h2_p, h3, h3_p, t) ==
    [row EXCEPT ![REQUIRED_COLUMNS.h2_headline] = Str(h2),
                ![H2_TEXT_COLUMN] = Str(h2_p),
                ![REQUIRED_COLUMNS.h3_headline] = Str(h3),
                ![H3_TEXT_COLUMN] = Str(h3_p),
                ![REQUIRED_COLUMNS.collection_html] = Str(ComposeHtml(h2, h2_p, h3, h3_p)),
                ![REQUIRED_COLUMNS.processed_at] = Str(Stamp(t)),
                ![REQUIRED_COLUMNS.row_hash] = Str(RowHash(row))]

\* lines 111-125 up to the storefront call; without one the row is counted
CommitRow ==
    /\ pc = "commit"
    /\ df' = [df EXCEPT ![idx] = CommittedRow(df[idx], h2_heading, h2_paragraph,
                                              h3_heading, h3_paragraph, now)]
    /\ IF push
       THEN /\ pc' = "push"
            /\ UNCHANGED <<idx, processed, localVars, outcome>>
       ELSE /\ processed' = processed + 1
            /\ NextRow("processed")
    /\ UNCHANGED <<rowFrame, skipped, shopify_updates, errors, generator, genRows>>

\* a push that counts the storefront update but not the row
PushSucceedsUncounted ==
    /\ pc = "push"
    /\ creds
    /\ shopRows' = shopRows \cup {idx}
    /\ shopify_updates' = shopify_updates + 1
    /\ NextRow("processed")
    /\ UNCHANGED <<envVars, fileVars, source, source_errors, push, df, processed, skipped,
                   errors, generator, genRows>>

\* line 122-125: upsert_collection returns
PushSucceeds ==
    /\ pc = "push"
    /\ creds
    /\ shopRows' = shopRows \cup {idx}
    /\ shopify_updates' = shopify_updates + 1
    /\ processed' = processed + 1
    /\ NextRow("processed")
    /\ UNCHANGED <<envVars, fileVars, source, source_errors, push, df, skipped, errors,
                   generator, genRows>>

\* a handler that undoes the row's writes when the upsert raises
PushFailsRollsBack ==
    /\ pc = "push"
    /\ creds
    /\ shopRows' = shopRows \cup {idx}
    /\ errors' = Append(errors, [index |-> idx - 1, keyword |-> Keyword(df[idx]),
                                 message |-> MsgUpsert])
    /\ NextRow("error")
    /\ df' = [df EXCEPT ![idx] = NormalizeColumns(ReadExcel(source))[idx]]
    /\ UNCHANGED <<processed, skipped, shopify_updates>>
    /\ UNCHANGED <<envVars, fileVars, source, source_errors, push, generator, genRows>>

\* line 122: upsert_collection raises (raise_for_status, or the request fails)
PushFails ==
    /\ pc = "push"
    /\ creds
    /\ shopRows' = shopRows \cup {idx}
    /\ RowError(MsgUpsert)
    /\ UNCHANGED <<envVars, fileVars, source, source_errors, push, generator, genRows>>

\* lines 130-150: the sheet is written and the result returned
FinishRun ==
    /\ pc = "loop"
    /\ idx > Len(df)
    /\ \E t \in {second, second + 1} :
         /\ second' = t
         /\ output_path' = OutputPath(input_path, t)
         /\ outdir' = outdir \cup {OutputPath(input_path, t)}
    /\ output' = WriteExcel(df)
    /\ written' = written + 1
    /\ result' = <<[input_file |-> input_path, output_file |-> output_path',
                    processed_rows |-> processed, skipped_rows |-> skipped,
                    errors |-> errors, shopify_updates |-> shopify_updates]>>
    /\ pc' = "idle"
    /\ UNCHANGED <<envVars, inputFile, input_path, rejection, now, runNo, localVars, source,
                   source_errors, push, df,
                   idx, processed, skipped, shopify_updates, errors, generator,
                   genRows, shopRows, outcome>>

vars == <<envVars, fileVars, localVars, runVars>>

Next ==
    \/ \E upload \in BOOLEAN : RejectPush(upload)
    \/ \E p \in BOOLEAN : StartRun(p)
    \/ SkipBlankKeyword
    \/ SkipAlreadyProcessed
    \/ EnterRow
    \/ GeneratorMissing
    \/ GeneratorFails
    \/ BuildH2Override
    \/ BuildH2Generate
    \/ BuildH2Paragraph
    \/ BuildH3Override
    \/ BuildH3Generate
    \/ BuildH3Paragraph
    \/ CommitRow
    \/ PushSucceeds
    \/ PushFails
    \/ FinishRun

Spec == Init /\ [][Next]_vars

\* ---------------------------------------------------------- prompt manager

\* A dict of prompts is a set of entries, one per key; a value is a JSON
\* string (str) holding the text s, or some other JSON value.
Entry(key, s) == [key |-> key, str |-> TRUE, s |-> s]

\* overrides.get(key, "")
Lookup(map, key) ==
    IF \E e \in map : e.key = key THEN (CHOOSE e \in map : e.key = key).s ELSE <<>>

\* the loop of save_overrides: recognized keys with a non-empty trimmed value
Sanitized(prompts) ==
    {Entry(e.key, Strip(e.s)) : e \in {x \in prompts : x.key \in PromptKeys /\ Strip(x.s) # <<>>}}

\* _load_overrides: what the cache holds once loaded
FilteredFile(file) ==
    IF ~file.exists \/ file.json # "object" THEN {}
    ELSE {Entry(e.key, Strip(e.s)) :
            e \in {x \in file.data : x.key \in PromptKeys /\ x.str /\ Strip(x.s) # <<>>}}

\* line 83: read_text raises when the bytes of the file are not text in its
\* encoding (UnicodeDecodeError is not a JSONDecodeError)
LoadRaises == ~overrides.loaded /\ prompt_file.exists /\ prompt_file.json = "undecodable"

LoadOverrides == IF overrides.loaded THEN overrides.map ELSE FilteredFile(prompt_file)

\* get_prompt(key), for a recognized key
ResolvedPrompt(key) ==
    LET value == Strip(Lookup(LoadOverrides, key))
    IN IF value # <<>> THEN value ELSE DEFAULT_PROMPTS[key]

MaxSaves == 2

CustomPrompt == <<"Custom: {keyword}">>
PromptTexts == {<<>>, <<" ">>, <<" ">> \o CustomPrompt}

\* what save_overrides is given: the settings form posts a text for each of
\* the three keys; a direct caller may omit keys and pass unrecognized ones
PostedPrompts ==
    {{Entry("h2_heading", t[1]), Entry("paragraph", t[2]), Entry("h3_heading", t[3])} :
        t \in PromptTexts \X PromptTexts \X PromptTexts}
      \cup {{Entry("h3_heading", CustomPrompt), Entry("unknown", CustomPrompt)}}

processorVars == <<fileVars, localVars, runVars>>

\* a save that updates the stored overrides instead of replacing them
SaveOverridesMerges(prompts) ==
    /\ pc = "idle"
    /\ saves < MaxSaves
    /\ saves' = saves + 1
    /\ posted' = prompts
    /\ pm_call' = [fn |-> "save_overrides", raised |-> "", value |-> {}]
    /\ LET merged == Sanitized(prompts) \cup
                       {e \in LoadOverrides : \A n \in Sanitized(prompts) : n.key # e.key}
       IN /\ prompt_file' = [exists |-> TRUE, json |-> "object", data |-> merged]
          /\ overrides' = [loaded |-> TRUE, map |-> merged]
    /\ UNCHANGED <<settingsVars, service, probe, request, resolved, processorVars>>

\* save_overrides(prompts)
SaveOverrides(prompts) ==
    /\ pc = "idle"
    /\ saves < MaxSaves
    /\ saves' = saves + 1
    /\ posted' = prompts
    /\ pm_call' = [fn |-> "save_overrides", raised |-> "", value |-> {}]
    /\ prompt_file' = [exists |-> TRUE, json |-> "object", data |-> Sanitized(prompts)]
    /\ overrides' = [loaded |-> TRUE, map |-> Sanitized(prompts)]
    /\ UNCHANGED <<settingsVars, service, probe, request, resolved, processorVars>>

\* save_overrides, whatever it is given, when write_text of line 74 raises: open() failed
\* and the file is as it was, or the file was opened, which empties it, and
\* the write failed, which leaves it empty or with part of the text; line 75
\* is not reached
SaveOverridesWriteFails(truncated) ==
    /\ pc = "idle"
    /\ pm_call' = [fn |-> "save_overrides", raised |-> "OSError", value |-> {}]
    /\ prompt_file' = IF truncated THEN [exists |-> TRUE, json |-> "malformed", data |-> {}]
                      ELSE prompt_file
    /\ UNCHANGED <<settingsVars, service, probe, overrides, request, resolved, saves, posted,
                   processorVars>>

\* get_prompt(key): KeyError for an unknown key, before anything is loaded
GetPrompt(key) ==
    /\ pc = "idle"
    /\ IF key \notin PromptKeys
       THEN /\ resolved' = <<[key |-> key, raised |-> "KeyError", value |-> <<>>]>>
            /\ pm_call' = [fn |-> "get_prompt", raised |-> "KeyError", value |-> {}]
            /\ UNCHANGED overrides
       ELSE IF LoadRaises
       THEN /\ resolved' = <<[key |-> key, raised |-> "UnicodeDecodeError", value |-> <<>>]>>
            /\ pm_call' = [fn |-> "get_prompt", raised |-> "UnicodeDecodeError", value |-> {}]
            /\ UNCHANGED overrides
       ELSE /\ resolved' = <<[key |-> key, raised |-> "", value |-> ResolvedPrompt(key)]>>
            /\ pm_call' = [fn |-> "get_prompt", raised |-> "",
                           value |-> {Entry(key, ResolvedPrompt(key))}]
            /\ overrides' = [loaded |-> TRUE, map |-> LoadOverrides]
    /\ UNCHANGED <<settingsVars, service, probe, prompt_file, request, saves, posted, processorVars>>

\* get_effective_prompts(): the overrides merged onto the defaults
GetEffectivePrompts ==
    /\ pc = "idle"
    /\ IF LoadRaises
       THEN /\ pm_call' = [fn |-> "get_effective_prompts", raised |-> "UnicodeDecodeError",
                           value |-> {}]
            /\ UNCHANGED overrides
       ELSE /\ pm_call' = [fn |-> "get_effective_prompts", raised |-> "",
                           value |-> {Entry(key, ResolvedPrompt(key)) : key \in PromptKeys}]
            /\ overrides' = [loaded |-> TRUE, map |-> LoadOverrides]
    /\ UNCHANGED <<settingsVars, service, probe, prompt_file, request, resolved, saves, posted,
                   processorVars>>

\* get_overrides(): a copy of the cache
GetOverrides ==
    /\ pc = "idle"
    /\ IF LoadRaises
       THEN /\ pm_call' = [fn |-> "get_overrides", raised |-> "UnicodeDecodeError",
                           value |-> {}]
            /\ UNCHANGED overrides
       ELSE /\ pm_call' = [fn |-> "get_overrides", raised |-> "", value |-> LoadOverrides]
            /\ overrides' = [loaded |-> TRUE, map |-> LoadOverrides]
    /\ UNCHANGED <<settingsVars, service, probe, prompt_file, request, resolved, saves, posted,
                   processorVars>>

\* generate_h2_heading / generate_paragraph / generate_h3_heading build
\* their request; the prompt manager is not consulted.
Generate(key, variables) ==
    /\ pc = "idle"
    /\ apiKey
    /\ request' = <<GeneratorRequest(key, variables)>>
    /\ UNCHANGED <<settingsVars, service, probe, prompt_file, overrides, resolved, saves,
                   posted, pm_call, processorVars>>

GenerateH2Heading == Generate("h2_heading", [keyword |-> KW])

GenerateParagraph ==
    \E target_words \in {150, 200} :
        Generate("paragraph", [keyword |-> KW, subtopic |-> <<"b">>,
                               target_words |-> target_words])

GenerateH3Heading == Generate("h3_heading", [keyword |-> KW, h2_keyword |-> <<"b">>])

\* override stores a deployment may start with
InitialPromptFiles ==
    {NoFile,
     [exists |-> TRUE, json |-> "malformed", data |-> {}],
     [exists |-> TRUE, json |-> "array", data |-> {}],
     [exists |-> TRUE, json |-> "undecodable", data |-> {}],
     [exists |-> TRUE, json |-> "object",
      data |-> {Entry("h2_heading", CustomPrompt), Entry("unknown", CustomPrompt)}],
     [exists |-> TRUE, json |-> "object",
      data |-> {Entry("h2_heading", <<" ">>),
                [key |-> "paragraph", str |-> FALSE, s |-> <<>>],
                Entry("h3_heading", <<" ">> \o CustomPrompt)}]}

InitPromptManager ==
    /\ apiKey = TRUE
    /\ creds = FALSE
    /\ service = FreeService
    /\ inputFile = <<>>
    /\ InitProcessor
    /\ prompt_file \in InitialPromptFiles
    /\ overrides = NotLoaded
    /\ request = <<>>
    /\ resolved = <<>>
    /\ saves = 0
    /\ posted = {}
    /\ pm_call = NoPromptCall
    /\ probe = <<>>

NextPromptManager ==
    \/ \E prompts \in PostedPrompts : SaveOverrides(prompts)
    \/ \E truncated \in BOOLEAN : SaveOverridesWriteFails(truncated)
    \/ \E key \in PromptKeys \cup {"unknown"} : GetPrompt(key)
    \/ GetEffectivePrompts
    \/ GetOverrides
    \/ GenerateH2Heading
    \/ GenerateParagraph
    \/ GenerateH3Heading

SpecPromptManager == InitPromptManager /\ [][NextPromptManager]_vars

\* ------------------------------------------ _validate_heading on its own

MaxTail == 2

RECURSIVE Texts(_, _)
\* every text over the characters cs of length at most n
Texts(cs, n) ==
    IF n = 0 THEN {<<>>}
    ELSE LET shorter == Texts(cs, n - 1)
         IN shorter \cup {<<c>> \o t : c \in cs, t \in {x \in shorter : Len(x) = n - 1}}

\* candidate headings: short ones, and ones around the length limit
HeadingProbes ==
    {lead \o Repeat("b", n) \o tail :
        lead \in {<<>>, <<" ">>},
        n \in {0, MaxHeadingLen - 2, MaxHeadingLen - 1},
        tail \in Texts({"a", "A", " ", "b"}, MaxTail)}

ProbeKeywords == {<<"a">>, <<"A", "a">>, Repeat("b", MaxHeadingLen)}

\* the arguments the two callers pass: the H2 set, and the H3 set for an
\* H2 heading that validation let through
ProbeCalls ==
    {[heading |-> h, keyword |-> k, forbidden |-> ForbiddenH2(k)] :
        h \in HeadingProbes, k \in ProbeKeywords}
      \cup {[heading |-> h, keyword |-> <<"a">>, forbidden |-> ForbiddenH3(<<"a">>, h2)] :
              h \in HeadingProbes, h2 \in {<<"A", "b">>, Repeat("b", MaxHeadingLen)}}

InitValidateHeading ==
    /\ apiKey = TRUE
    /\ creds = FALSE
    /\ service = FreeService
    /\ inputFile = <<>>
    /\ InitProcessor
    /\ InitPrompts
    /\ \E c \in ProbeCalls :
         probe = [fn |-> "_validate_heading", args |-> c, returned |-> FALSE,
                  value |-> <<>>]

CallValidateHeading ==
    /\ probe.fn = "_validate_heading"
    /\ ~probe.returned
    /\ probe' = [probe EXCEPT !.returned = TRUE,
                              !.value = ValidateHeading(probe.args.heading,
                                                        probe.args.keyword,
                                                        probe.args.forbidden)]
    /\ UNCHANGED <<settingsVars, service, promptVars, processorVars>>

NextValidateHeading == CallValidateHeading

SpecValidateHeading == InitValidateHeading /\ [][NextValidateHeading]_vars

\* ------------------------------------- upsert_collection against the store
\* Two server processes run push-enabled workbooks at the same time; each
\* is inside at most one upsert_collection call, whose lookup (GET) and
\* write (PUT or POST) are two requests to the remote store.

Workers == {"w1", "w2"}

\* upsert_collection calls started in one behaviour
MaxUpserts == 3

Titles == {<<"a">>, <<"b">>}

Bodies == {<<"x">>, <<"y">>}

Collection(id, title, body) == [id |-> id, title |-> title, body_html |-> body]

\* a store with at most one collection per title
InitialStores == {<<>>, <<Collection(1, <<"a">>, <<"x">>)>>}

NoCall == [pc |-> "idle", title |-> <<>>, html_body |-> <<>>, existing_id |-> 0]

\* line 52-58: the id of the first collection the title filter returns, 0 for None
FindCollectionId(store, title) ==
    LET hits == {k \in DOMAIN store : store[k].title = title}
    IN IF hits = {} THEN 0
       ELSE store[CHOOSE k \in hits : \A j \in hits : k <= j].id

InitStorefront ==
    /\ apiKey = TRUE
    /\ creds = TRUE
    /\ service = FreeService
    /\ inputFile = <<>>
    /\ InitProcessor
    /\ InitPrompts
    /\ \E st \in InitialStores :
         probe = [fn |-> "upsert_collection", store |-> st, upserts |-> 0,
                  call |-> [w \in Workers |-> NoCall],
                  returned |-> [w \in Workers |-> 0],
                  raised |-> [w \in Workers |-> FALSE]]

\* line 36-37: the lookup answers and the payload is built
UpsertLookup(w, title, html_body) ==
    /\ probe.fn = "upsert_collection"
    /\ probe.call[w].pc = "idle"
    /\ probe.upserts < MaxUpserts
    /\ probe' = [probe EXCEPT
                   !.upserts = @ + 1,
                   !.raised[w] = FALSE,
                   !.returned[w] = 0,
                   !.call[w] = [pc |-> "found", title |-> title, html_body |-> html_body,
                                existing_id |-> FindCollectionId(probe.store, title)]]
    /\ UNCHANGED <<settingsVars, service, promptVars, processorVars>>

\* line 54-55: the lookup request fails and raise_for_status raises
UpsertLookupRaises(w) ==
    /\ probe.fn = "upsert_collection"
    /\ probe.call[w].pc = "idle"
    /\ probe.upserts < MaxUpserts
    /\ probe' = [probe EXCEPT !.upserts = @ + 1, !.raised[w] = TRUE, !.returned[w] = 0]
    /\ UNCHANGED <<settingsVars, service, promptVars, processorVars>>

\* line 39-42, 48-50: an id was found, PUT replaces title and body of that collection
UpsertPut(w) ==
    /\ probe.fn = "upsert_collection"
    /\ probe.call[w].pc = "found"
    /\ probe.call[w].existing_id # 0
    /\ probe' = [probe EXCEPT
                   !.store = [k \in DOMAIN probe.store |->
                                IF probe.store[k].id = probe.call[w].existing_id
                                THEN Collection(probe.store[k].id, probe.call[w].title,
                                                probe.call[w].html_body)
                                ELSE probe.store[k]],
                   !.returned[w] = probe.call[w].existing_id,
                   !.call[w] = NoCall]
    /\ UNCHANGED <<settingsVars, service, promptVars, processorVars>>

\* line 43-46, 48-50: no id was found, POST creates a collection
UpsertPost(w) ==
    /\ probe.fn = "upsert_collection"
    /\ probe.call[w].pc = "found"
    /\ probe.call[w].existing_id = 0
    /\ probe' = [probe EXCEPT
                   !.store = Append(@, Collection(Len(@) + 1, probe.call[w].title,
                                                  probe.call[w].html_body)),
                   !.returned[w] = Len(probe.store) + 1,
                   !.call[w] = NoCall]
    /\ UNCHANGED <<settingsVars, service, promptVars, processorVars>>

\* a write whose error status is not looked at: the id of the lookup is returned
UpsertWriteErrorSwallowed(w) ==
    /\ probe.fn = "upsert_collection"
    /\ probe.call[w].pc = "found"
    /\ probe' = [probe EXCEPT !.returned[w] = probe.call[w].existing_id,
                              !.call[w] = NoCall]
    /\ UNCHANGED <<settingsVars, service, promptVars, processorVars>>

\* line 48: the write request fails and raise_for_status raises
UpsertWriteRaises(w) ==
    /\ probe.fn = "upsert_collection"
    /\ probe.call[w].pc = "found"
    /\ probe' = [probe EXCEPT !.raised[w] = TRUE, !.call[w] = NoCall]
    /\ UNCHANGED <<settingsVars, service, promptVars, processorVars>>

NextStorefront ==
    \/ \E w \in Workers, title \in Titles, html_body \in Bodies :
         UpsertLookup(w, title, html_body)
    \/ \E w \in Workers : UpsertLookupRaises(w)
    \/ \E w \in Workers : UpsertPut(w)
    \/ \E w \in Workers : UpsertPost(w)
    \/ \E w \in Workers : UpsertWriteRaises(w)

SpecStorefront == InitStorefront /\ [][NextStorefront]_vars

\* --------------------------------------------------- the background runner
\* startup_event and the one task it creates. process_latest never awaits,
\* so between the start and the end of a cycle's try block nothing else
\* runs on the event loop; the task yields only in asyncio.sleep. Time is
\* counted in ticks of one minute.

\* cycles of the loop started in one behaviour
MaxCycles == 3

\* poll_interval_minutes
PollIntervals == {0, 1, 2}

\* main.py line 44-49: _create_processor raises HTTP 400
CreateProcessorRejects(push_to_shopify) == push_to_shopify /\ ~creds

InitBackgroundRunner ==
    /\ apiKey = TRUE
    /\ creds \in BOOLEAN
    /\ service = FreeService
    /\ inputFile = <<>>
    /\ InitProcessor
    /\ InitPrompts
    /\ \E e \in BOOLEAN, m \in PollIntervals :
         probe = [fn |-> "_background_runner", enable_background_runner |-> e,
                  poll_interval_minutes |-> m, started |-> FALSE, task |-> "none",
                  cycles |-> 0, running |-> 0, remaining |-> 0, slept |-> 0,
                  last |-> "none"]

\* line 275-278: the task is created once, when the runner is enabled
StartupEvent ==
    /\ probe.fn = "_background_runner"
    /\ ~probe.started
    /\ probe' = [probe EXCEPT !.started = TRUE,
                              !.task = IF probe.enable_background_runner
                                       THEN "try" ELSE "none"]
    /\ UNCHANGED <<settingsVars, service, promptVars, processorVars>>

\* line 262-265: push is what the credentials allow, the processor is
\* created and process_latest is entered
CycleStarts ==
    /\ probe.fn = "_background_runner"
    /\ probe.task = "try"
    /\ probe.cycles < MaxCycles
    /\ LET push_to_shopify == creds
       IN IF CreateProcessorRejects(push_to_shopify)
          THEN probe' = [probe EXCEPT !.cycles = @ + 1, !.task = "sleep",
                                      !.last = "HTTPException", !.slept = 0,
                                      !.remaining = probe.poll_interval_minutes]
          ELSE probe' = [probe EXCEPT !.cycles = @ + 1, !.task = "run",
                                      !.running = @ + 1]
    /\ UNCHANGED <<settingsVars, service, promptVars, processorVars>>

\* line 265-267, 272: process_latest returns a result or None, then the sleep begins
CycleReturns(returned) ==
    /\ probe.fn = "_background_runner"
    /\ probe.task = "run"
    /\ probe' = [probe EXCEPT !.task = "sleep", !.running = @ - 1, !.last = returned,
                              !.slept = 0, !.remaining = probe.poll_interval_minutes]
    /\ UNCHANGED <<settingsVars, service, promptVars, processorVars>>

\* an exception that ends the task
CycleFailsUncaught ==
    /\ probe.fn = "_background_runner"
    /\ probe.task = "run"
    /\ probe' = [probe EXCEPT !.task = "dead", !.running = @ - 1, !.last = "Exception"]
    /\ UNCHANGED <<settingsVars, service, promptVars, processorVars>>

\* line 270-272: process_latest raises, the exception is logged, then the sleep begins
CycleFails ==
    /\ probe.fn = "_background_runner"
    /\ probe.task = "run"
    /\ probe' = [probe EXCEPT !.task = "sleep", !.running = @ - 1, !.last = "Exception",
                              !.slept = 0, !.remaining = probe.poll_interval_minutes]
    /\ UNCHANGED <<settingsVars, service, promptVars, processorVars>>

\* a minute of the sleep passes
Tick ==
    /\ probe.fn = "_background_runner"
    /\ probe.task = "sleep"
    /\ probe.remaining > 0
    /\ probe' = [probe EXCEPT !.remaining = @ - 1, !.slept = @ + 1]
    /\ UNCHANGED <<settingsVars, service, promptVars, processorVars>>

\* line 272, 261: asyncio.sleep returns and the loop goes round
Wake ==
    /\ probe.fn = "_background_runner"
    /\ probe.task = "sleep"
    /\ probe.remaining <= 0
    /\ probe' = [probe EXCEPT !.task = "try"]
    /\ UNCHANGED <<settingsVars, service, promptVars, processorVars>>

NextBackgroundRunner ==
    \/ StartupEvent
    \/ CycleStarts
    \/ \E returned \in {"result", "none"} : CycleReturns(returned)
    \/ CycleFails
    \/ Tick
    \/ Wake

\* the event loop runs the task whenever it can go on, and time passes
SpecBackgroundRunner ==
    InitBackgroundRunner /\ [][NextBackgroundRunner]_vars /\ WF_vars(NextBackgroundRunner)

\* -------------------------------------------- _build_paragraph on its own

ProbeDelta == 1

\* the two targets process_file asks for
ProbeTargets == {200, 150}

\* word counts around 75% and 115% of the targets
ProbeCounts ==
    UNION {((q - ProbeDelta)..(q + ProbeDelta)) :
             q \in UNION {{(75 * t) \div 100, (115 * t) \div 100} : t \in ProbeTargets}}

\* generator answers of n words: bare, padded, wrapped in <p>, wrapped in <P>
ProbeParagraphs ==
    UNION {{<<Words(n)>>, <<WS, Words(n), WS>>, POpen \o <<Words(n)>> \o PClose,
            <<LT, Seg("w", 1, "P"), GT, Words(n)>> \o PClose} : n \in ProbeCounts}

InitBuildParagraph ==
    /\ apiKey = TRUE
    /\ creds = FALSE
    /\ service = FreeService
    /\ inputFile = <<>>
    /\ InitProcessor
    /\ InitPrompts
    /\ \E t \in ProbeTargets :
         probe = [fn |-> "_build_paragraph", target_words |-> t, attempt |-> 0,
                  returned |-> FALSE, accepted |-> FALSE, word_count |-> 0,
                  paragraph |-> <<>>]

\* one pass of the retry loop
BuildParagraphAttempt ==
    /\ probe.fn = "_build_paragraph"
    /\ ~probe.returned
    /\ \E output_text \in ProbeParagraphs :
         LET r == ParagraphAttempt(CompleteParagraph(output_text), probe.target_words,
                                   probe.attempt)
         IN probe' = [probe EXCEPT !.attempt = @ + 1,
                                   !.returned = r.returned,
                                   !.accepted = r.accepted,
                                   !.word_count = WordCount(r.paragraph),
                                   !.paragraph = r.paragraph]
    /\ UNCHANGED <<settingsVars, service, promptVars, processorVars>>

NextBuildParagraph == BuildParagraphAttempt

SpecBuildParagraph == InitBuildParagraph /\ [][NextBuildParagraph]_vars

\* ================================================================ claims

\* the table as the current run read it
RunInput == NormalizeColumns(ReadExcel(source))

\* the rows the current run has dealt with
Handled == 1..Len(outcome)

ErrorsOf(errs, i) == {k \in 1..Len(errs) : errs[k].index = i - 1}

Count(what) == Cardinality({i \in Handled : outcome[i] = what})

\* C1: in _build_paragraph a normalized paragraph is accepted on an attempt
\* if and only if its tag-stripped word count lies within [75%, 115%] of
\* the target, both ends inclusive (target 200: 150 and 230 accepted, 149
\* and 231 rejected).
C1_AcceptedIffWithinPercent ==
    (probe.fn = "_build_paragraph" /\ probe.attempt > 0) =>
        (probe.accepted <=>
            /\ 75 * probe.target_words <= 100 * probe.word_count
            /\ 100 * probe.word_count <= 115 * probe.target_words)

\* the previous run wrote row i and counted it as processed
ProcessedByPreviousRun(i) ==
    /\ input_path # UploadPath
    /\ source[i][REQUIRED_COLUMNS.processed_at] = Stamp(now - 1)
    /\ ErrorsOf(source_errors, i) = {}

\* the loop of a run on the previous run's output is over
RerunLoopOver == input_path # UploadPath /\ pc = "loop" /\ idx > Len(df)

\* C2: a run on the output of the previous run skips every row the previous
\* run processed, without a generation call; for a one-row table it ends
\* with skipped_rows = 1 and processed_rows = 0.
C2_RerunSkipsProcessedRows ==
    RerunLoopOver =>
        /\ \A i \in 1..Len(df) :
             ProcessedByPreviousRun(i) => outcome[i] = "skipped" /\ i \notin genRows
        /\ (Len(df) = 1 /\ ProcessedByPreviousRun(1)) => skipped = 1 /\ processed = 0

\* the row's stored hash is the hash of its three inputs and its stored
\* HTML is non-empty
HashMatches(row) ==
    /\ ~row[REQUIRED_COLUMNS.row_hash].nan
    /\ row[REQUIRED_COLUMNS.row_hash].s = RowHash(row)
    /\ ~row[REQUIRED_COLUMNS.collection_html].nan
    /\ row[REQUIRED_COLUMNS.collection_html].s # <<>>

HeadingExhausted(i) ==
    \E k \in ErrorsOf(errors, i) : errors[k].message \in {MsgNoH2, MsgNoH3}

\* C4: a row whose three generated heading candidates were all invalid is
\* in the error list with the H2 (or H3) message, is not counted as
\* processed, and has none of its columns changed by the run; while a
\* heading is still being resolved nothing of the row has been written.
C4_HeadingExhaustionLeavesRow ==
    /\ \A i \in Handled :
         HeadingExhausted(i) =>
            /\ outcome[i] = "error"
            /\ df[i] = RunInput[i]
            /\ i \in genRows
    /\ processed = Count("processed")
    /\ (pc \in {"h2", "p2", "h3", "p3"}) => df[idx] = RunInput[idx]
    /\ (pc \in {"h2", "h3"} /\ AtGeneratorCall) => attempt < MaxAttempts

\* H3 exhaustion after the H2 heading and paragraph were produced
C4_Witness ==
    \E i \in Handled :
        /\ \E k \in ErrorsOf(errors, i) : errors[k].message = MsgNoH3
        /\ Override(RunInput[i], REQUIRED_COLUMNS.h2_override) = <<>>
        /\ outcome[i] = "error"

\* C5: a failure raised while a row is processed is caught at that row and
\* appended to the error list with the row's index and keyword; the run
\* goes on: rows are examined in order, and a run that ended has examined
\* every row and returned its result, errors included.
C5_RowFailureIsRowScoped ==
    /\ Len(outcome) = (IF pc = "idle" THEN Len(df) ELSE idx - 1)
    /\ \A i \in Handled :
         outcome[i] = "error" =>
            \E k \in 1..Len(errors) :
                /\ errors[k].index = i - 1
                /\ errors[k].keyword = Keyword(RunInput[i])
    /\ Len(errors) = Count("error")
    /\ (pc = "idle" /\ runNo > 0) =>
            /\ result # <<>>
            /\ result[1].errors = errors
            /\ result[1].processed_rows + result[1].skipped_rows + Len(errors) = Len(df)

\* a run that ended after its first row failed and its second was processed
C5_Witness ==
    /\ pc = "idle"
    /\ Len(outcome) = 2
    /\ outcome[1] = "error"
    /\ outcome[2] = "processed"
    /\ result[1].processed_rows = 1

\* the upsert of row i raised
UpsertFailed(i) == \E k \in ErrorsOf(errors, i) : errors[k].message = MsgUpsert

\* the row holds what lines 113-119 wrote in this run
HoldsRunContent(row, input) ==
    /\ ~row[REQUIRED_COLUMNS.h2_headline].nan
    /\ ~row[REQUIRED_COLUMNS.h3_headline].nan
    /\ row[H2_TEXT_COLUMN].s # <<>>
    /\ row[H3_TEXT_COLUMN].s # <<>>
    /\ Len(row[REQUIRED_COLUMNS.collection_html].s) = 4
    /\ row[REQUIRED_COLUMNS.collection_html].s[2] = row[H2_TEXT_COLUMN].s
    /\ row[REQUIRED_COLUMNS.collection_html].s[4] = row[H3_TEXT_COLUMN].s
    /\ row[REQUIRED_COLUMNS.processed_at] = Str(Stamp(now))
    /\ row[REQUIRED_COLUMNS.row_hash] = Str(RowHash(input))

\* C6: with push enabled, a row whose upsert failed is a row error, counts
\* neither in shopify_updates nor in processed_rows, and is not rolled
\* back: the headings, paragraphs, HTML, timestamp and hash written before
\* the push stay in the table and reach the output sheet.
C6_PushFailureKeepsRow ==
    /\ \A i \in Handled :
         UpsertFailed(i) =>
            /\ push
            /\ outcome[i] = "error"
            /\ HoldsRunContent(df[i], RunInput[i])
            /\ (pc = "idle" => output[i] = WriteExcel(df)[i])
    /\ processed = Count("processed")
    /\ shopify_updates = Cardinality({i \in Handled : outcome[i] = "processed" /\ i \in shopRows})

C6_Witness ==
    /\ pc = "idle"
    /\ \E i \in Handled : UpsertFailed(i) /\ output[i][REQUIRED_COLUMNS.row_hash] # <<>>
    /\ result[1].shopify_updates = 0

\* the call under test, once it has returned
Cleaned == Strip(probe.args.heading)
MatchesForbidden == \E f \in probe.args.forbidden : Lower(Cleaned) = Lower(f)
TooLong == Len(Cleaned) > MaxHeadingLen /\ ~MatchesForbidden

\* C7 as stated: an input that, trimmed, equals a forbidden term in any
\* case yields ""; an input longer than 60 characters comes back as exactly
\* 60 characters and is never rejected for its length alone.
C7_TruncatedToExactly60 ==
    (probe.fn = "_validate_heading" /\ probe.returned) =>
        /\ MatchesForbidden => probe.value = <<>>
        /\ TooLong => Len(probe.value) = MaxHeadingLen

\* C7, amended: an input that, trimmed, equals a forbidden term in any
\* case yields ""; an input longer than 60 characters is never rejected for
\* its length alone and comes back as its first 60 characters with the
\* whitespace at their end removed: a non-empty prefix of at most 60
\* characters that ends in a non-blank, of exactly 60 when the 60th
\* character is not whitespace.
C7_TruncatedTo60ThenTrimmed ==
    (probe.fn = "_validate_heading" /\ probe.returned) =>
        /\ MatchesForbidden => probe.value = <<>>
        /\ TooLong =>
            /\ probe.value # <<>>
            /\ Len(probe.value) <= MaxHeadingLen
            /\ probe.value = SubSeq(Cleaned, 1, Len(probe.value))
            /\ ~IsSpace(probe.value[Len(probe.value)])
            /\ \A j \in (Len(probe.value) + 1)..MaxHeadingLen : IsSpace(Cleaned[j])
            /\ ~IsSpace(Cleaned[MaxHeadingLen]) => Len(probe.value) = MaxHeadingLen

\* a heading of more than 60 characters whose cut falls behind a blank
C7_Witness ==
    /\ probe.fn = "_validate_heading"
    /\ probe.returned
    /\ TooLong
    /\ probe.value # <<>>
    /\ Len(probe.value) < MaxHeadingLen

\* C8: in every row counted as processed the committed H3 heading equals,
\* in any case, neither the keyword nor the committed H2 heading.
C8_H3DiffersFromKeywordAndH2 ==
    \A i \in Handled :
        outcome[i] = "processed" =>
            /\ Lower(df[i][REQUIRED_COLUMNS.h3_headline].s) # Lower(Keyword(RunInput[i]))
            /\ Lower(df[i][REQUIRED_COLUMNS.h3_headline].s)
                 # Lower(df[i][REQUIRED_COLUMNS.h2_headline].s)

\* the sheet's override cell is missing, empty or whitespace-only
NoOverrideInSheet(i, column) ==
    column \notin DOMAIN source[i] \/ Strip(source[i][column]) = <<>>

\* the headings the Content Generator can supply for a forbidden set
GeneratedHeadings(keyword, forbidden) ==
    {ValidateHeading(CompleteHeading(r), keyword, forbidden) : r \in service.h2 \cup service.h3}
        \ {<<>>}

\* C9: an override that is empty or whitespace-only (a blank cell, or a
\* column that column normalization created) is treated as absent: the
\* row's heading comes from the Content Generator, never from the cell.
C9_BlankOverrideIsAbsent ==
    /\ (pc = "p2" /\ NoOverrideInSheet(idx, REQUIRED_COLUMNS.h2_override)) =>
          h2_heading \in GeneratedHeadings(Keyword(df[idx]), ForbiddenH2(Keyword(df[idx])))
    /\ (pc = "p3" /\ NoOverrideInSheet(idx, REQUIRED_COLUMNS.h3_override)) =>
          h3_heading \in GeneratedHeadings(Keyword(df[idx]),
                                           ForbiddenH3(Keyword(df[idx]), h2_heading))

\* C10: once save_overrides has stored a non-empty override for a key,
\* every generation call for that key sends the template the Prompt
\* Resolver returns for the key at the time of the call.
C10_RequestUsesResolvedPrompt ==
    [][(request' # request /\ saves > 0) =>
          request'[1].template = ResolvedPrompt(request'[1].key)]_vars

\* what the claim expects get_prompt(key) to return after a save of prompts
ExpectedPrompt(prompts, key) ==
    IF Strip(Lookup(prompts, key)) # <<>> THEN Strip(Lookup(prompts, key))
    ELSE DEFAULT_PROMPTS[key]

\* C11: after any sequence of save_overrides calls, get_prompt(k) for a
\* recognized key returns the trimmed value the most recent save gave for k
\* if that is non-empty, and the compiled-in default otherwise, whatever
\* earlier saves had set; get_prompt of any other key fails with an
\* unknown-key error.
C11_GetPromptFollowsLastSave ==
    [][resolved' # resolved =>
          IF resolved'[1].key \in PromptKeys
          THEN saves > 0 =>
                 /\ resolved'[1].raised = ""
                 /\ resolved'[1].value = ExpectedPrompt(posted, resolved'[1].key)
          ELSE resolved'[1].raised = "KeyError"]_vars

\* after two saves, get_prompt returned the trimmed override of the last one
C11_Witness ==
    /\ saves = 2
    /\ resolved # <<>>
    /\ resolved[1].key = "h2_heading"
    /\ Lookup(posted, "h2_heading") = <<" ">> \o CustomPrompt
    /\ resolved[1].value = CustomPrompt
    /\ Lookup(overrides.map, "paragraph") = <<>>

\* the normalized texts _build_paragraph can get from the generator
NormalizedResponses ==
    {NormalizeParagraph(CompleteParagraph(r)) : r \in service.paragraph}

\* the third pass of a paragraph loop
LastParagraphPass == pc \in {"p2", "p3"} /\ attempt = MaxAttempts - 1

\* the step raised in the generator, not in the loop
GeneratorRaised ==
    /\ Len(errors') = Len(errors) + 1
    /\ errors'[Len(errors')].message \in {MsgNoKey, MsgGenerate}

\* C12: the third pass of _build_paragraph returns the normalized text of
\* its attempt whatever its word count and raises nothing (the only errors
\* at that point are the generator's own), and the row is then written
\* with exactly the paragraphs the two loops returned.
C12_LastParagraphAttemptIsKept ==
    /\ [][LastParagraphPass =>
            \/ GeneratorRaised
            \/ /\ errors' = errors
               /\ attempt' = 0
               /\ pc = "p2" => pc' = "h3" /\ h2_paragraph' \in NormalizedResponses
               /\ pc = "p3" => pc' = "commit" /\ h3_paragraph' \in NormalizedResponses]_vars
    /\ [][pc = "commit" =>
            /\ df'[idx][H2_TEXT_COLUMN] = Str(h2_paragraph)
            /\ df'[idx][H3_TEXT_COLUMN] = Str(h3_paragraph)
            /\ ~push => outcome' = Append(outcome, "processed")]_vars

\* a row counted as processed whose H2 paragraph is outside the bounds
C12_Witness ==
    \E i \in Handled :
        /\ outcome[i] = "processed"
        /\ ~df[i][H2_TEXT_COLUMN].nan
        /\ df[i][H2_TEXT_COLUMN].s \in NormalizedResponses
        /\ ~WithinBounds(WordCount(df[i][H2_TEXT_COLUMN].s), 200)
        /\ ErrorsOf(errors, i) = {}

\* the sheet's keyword cell of row i is empty, whitespace-only or spells the
\* missing-value marker
NoKeywordInSheet(i) ==
    LET text == Strip(source[i][REQUIRED_COLUMNS.keyword])
    IN text = <<>> \/ Lower(text) = NanText

\* C13: a row whose keyword is blank, whitespace-only or the missing-value
\* marker is counted as skipped, gets no error entry, no Content Generator
\* call and no Storefront Client call, and keeps every column's value, in
\* the table and in the output sheet.
C13_BlankKeywordRowSkipped ==
    /\ \A i \in Handled :
         NoKeywordInSheet(i) =>
            /\ outcome[i] = "skipped"
            /\ ErrorsOf(errors, i) = {}
            /\ i \notin genRows
            /\ i \notin shopRows
            /\ df[i] = RunInput[i]
    /\ skipped = Count("skipped")
    /\ (pc = "idle" /\ runNo > 0) =>
          \A i \in 1..Len(source) :
              NoKeywordInSheet(i) => output[i] = WriteExcel(RunInput)[i]

\* a finished run that skipped a blank-keyword row after processing another
C13_Witness ==
    /\ pc = "idle"
    /\ runNo > 0
    /\ Len(source) = 2
    /\ NoKeywordInSheet(2)
    /\ outcome = <<"processed", "skipped">>
    /\ result[1].skipped_rows = 1

\* the step on which process_file writes its sheet and returns
RunFinishes == pc = "loop" /\ pc' = "idle"

\* C14: every run that read its input writes exactly one new output
\* artifact, after all rows have been handled and whatever happened to
\* them, at a path different from the input path; nothing else is written
\* to output_dir during the run and the input artifact is never written.
C14_OneNewOutputPerRun ==
    /\ [][RunFinishes =>
            /\ idx > Len(df)
            /\ Len(outcome) = Len(df)
            /\ output_path' \notin outdir
            /\ outdir' = outdir \cup {output_path'}
            /\ output_path' # input_path
            /\ inputFile' = inputFile]_vars
    /\ [][~RunFinishes => outdir' = outdir /\ inputFile' = inputFile]_vars

\* the step refused a request
Refused == rejection' # <<>> /\ rejection' # rejection

\* C15: a request that asks for storefront push without storefront
\* credentials is refused with a client error before any row is touched:
\* no run starts with push and without credentials, and the refusal makes
\* no generation call, processes no row and writes no output artifact.
C15_PushWithoutCredentialsRefused ==
    /\ [][(pc = "idle" /\ pc' # "idle" /\ push') => creds]_vars
    /\ [][Refused =>
            /\ ~creds
            /\ rejection'[1].status = 400
            /\ pc' = "idle"
            /\ <<runNo, df, idx, processed, skipped, errors, outcome>>'
                 = <<runNo, df, idx, processed, skipped, errors, outcome>>
            /\ <<generator, genRows, shopRows, request>>'
                 = <<generator, genRows, shopRows, request>>
            /\ <<output, written, output_path, outdir>>'
                 = <<output, written, output_path, outdir>>]_vars

\* an upload asking for push was refused after a run without push had
\* written its sheet
C15_Witness ==
    /\ rejection = <<[status |-> 400, saved |-> TRUE]>>
    /\ ~creds
    /\ runNo = 1
    /\ Cardinality(outdir) = 1
    /\ pc = "idle"

\* the first run on the one-row sheet {keyword "summer dresses"}, without
\* push, with the stubbed generator answering h3 to H3 requests, is over
EndToEndDone(h3) ==
    /\ inputFile = <<KeywordRow(SummerDresses)>>
    /\ service = FixedService(BeachOutings, h3)
    /\ apiKey
    /\ runNo = 1
    /\ ~push
    /\ pc = "idle"

\* the output row and the result the scenario expects
EndToEndSucceeded ==
    /\ result[1].processed_rows = 1
    /\ result[1].skipped_rows = 0
    /\ result[1].errors = <<>>
    /\ output[1][REQUIRED_COLUMNS.h2_headline] = BeachOutings
    /\ output[1][REQUIRED_COLUMNS.collection_html][1]
         = <<"<h2>">> \o BeachOutings \o <<"</h2>">>
    /\ output[1][REQUIRED_COLUMNS.collection_html][2] = POpen \o <<Words(200)>> \o PClose

\* C16 as stated: with a generator that returns "Beach Outings" for its
\* heading requests and a 200-word paragraph for its paragraph requests,
\* the one-row run ends with processed_rows=1, skipped_rows=0, errors=[],
\* H2 heading "Beach Outings" and HTML starting <h2>Beach Outings</h2><p>.
C16_EndToEndFixedHeading ==
    EndToEndDone(BeachOutings) => EndToEndSucceeded

\* C16, amended: the run ends that way when the generator returns "Beach
\* Outings" for the H2 request and a different valid heading for the H3
\* request; when it returns "Beach Outings" for the H3 requests as well,
\* all three H3 candidates equal the H2 heading, the row is recorded with
\* "Unable to produce valid H3 heading", processed_rows=0, skipped_rows=0
\* and the output row carries no heading and no HTML.
C16_EndToEndDistinctH3 ==
    /\ EndToEndDone(SunHats) =>
          /\ EndToEndSucceeded
          /\ output[1][REQUIRED_COLUMNS.h3_headline] = SunHats
    /\ EndToEndDone(BeachOutings) =>
          /\ result[1].processed_rows = 0
          /\ result[1].skipped_rows = 0
          /\ result[1].errors = <<[index |-> 0, keyword |-> SummerDresses,
                                   message |-> MsgNoH3]>>
          /\ output[1][REQUIRED_COLUMNS.h2_headline] = <<>>
          /\ output[1][REQUIRED_COLUMNS.collection_html] = <<>>

C16_Witness == EndToEndDone(SunHats) /\ EndToEndSucceeded /\ written = 1

\* C17: in every row counted as processed the committed H2 and H3
\* headings, and with them the contents of the <h2> and <h3> tags of the
\* HTML, are non-empty, also when a heading override fails validation.
C17_ProcessedHeadingsNonEmpty ==
    \A i \in Handled :
        outcome[i] = "processed" =>
            /\ df[i][REQUIRED_COLUMNS.h2_headline].s # <<>>
            /\ df[i][REQUIRED_COLUMNS.h3_headline].s # <<>>
            /\ df[i][REQUIRED_COLUMNS.collection_html].s[1] # <<"<h2>", "</h2>">>
            /\ df[i][REQUIRED_COLUMNS.collection_html].s[3] # <<"<h3>", "</h3>">>

\* the upsert of row i failed in the run that wrote the sheet being read
UpsertFailedBefore(i) ==
    \E k \in ErrorsOf(source_errors, i) : source_errors[k].message = MsgUpsert

\* C18: when a run with push reads the sheet of a run in which the upsert
\* of a row failed, it does not skip that row: once its loop is over it
\* has called the Storefront Client for the row again.
C18_FailedPushIsRetried ==
    (RerunLoopOver /\ push) =>
        \A i \in 1..Len(df) :
            UpsertFailedBefore(i) => outcome[i] # "skipped" /\ i \in shopRows

\* C19: every row a run has handled is accounted for exactly once, as
\* processed, skipped or one error entry, the error entries being in table
\* order; at the end the three counts of the result add up to the number
\* of rows; with push shopify_updates equals processed_rows, without it
\* shopify_updates is 0 and the Storefront Client is never called.
C19_EveryRowAccountedOnce ==
    /\ processed + skipped + Len(errors) = Len(outcome)
    /\ processed = Count("processed")
    /\ skipped = Count("skipped")
    /\ Len(errors) = Count("error")
    /\ \A k \in 1..Len(errors) :
         /\ errors[k].index + 1 \in Handled
         /\ outcome[errors[k].index + 1] = "error"
         /\ k > 1 => errors[k - 1].index < errors[k].index
    /\ (pc \in {"loop", "idle"} /\ push) => shopify_updates = processed
    /\ ~push => shopify_updates = 0 /\ shopRows = {}
    /\ (pc = "idle" /\ runNo > 0) =>
          /\ result[1].processed_rows + result[1].skipped_rows + Len(result[1].errors)
               = Len(df)
          /\ result[1].processed_rows = processed
          /\ result[1].skipped_rows = skipped
          /\ result[1].errors = errors
          /\ result[1].shopify_updates = shopify_updates

\* a finished two-row run with push: one row pushed and processed, one error
C19_Witness ==
    /\ pc = "idle"
    /\ push
    /\ Len(df) = 2
    /\ result # <<>>
    /\ result[1].processed_rows = 1
    /\ result[1].shopify_updates = 1
    /\ Len(result[1].errors) = 1

\* the collections of the store that carry the title
WithTitle(title) == {k \in DOMAIN probe.store : probe.store[k].title = title}

\* C20: a store that starts with at most one collection per title never
\* holds two collections with the same title, whatever the interleaving of
\* the lookups and writes of the upsert_collection calls of two runs.
C20_NoDuplicateTitle ==
    probe.fn = "upsert_collection" =>
        \A title \in Titles : Cardinality(WithTitle(title)) <= 1

\* the step leaves _build_h2_heading / _build_h3_heading with a heading
ReturnsH2 == pc = "h2" /\ pc' = "p2"
ReturnsH3 == pc = "h3" /\ pc' = "p3"

\* the step leaves a _build_paragraph call with a paragraph
ReturnsH2Paragraph == pc = "p2" /\ pc' = "h3"
ReturnsH3Paragraph == pc = "p3" /\ pc' = "commit"

\* the step is a pass of a generator loop that goes round again
LoopsAgain == pc \in {"h2", "p2", "h3", "p3"} /\ pc' = pc /\ attempt' # attempt

\* the step made no Content Generator call
NoGeneratorCall == generator' = generator /\ genRows' = genRows /\ attempt' = attempt

\* C21: a heading of a row without override comes from call 1, 2 or 3 of the
\* Content Generator and is the validated candidate of that call; a
\* paragraph comes from call 1, 2 or 3 and is the candidate of that call,
\* within bounds unless it is the third; a loop never starts a fourth pass;
\* a heading supplied by a non-empty override costs no generator call.
C21_GeneratorCallsBounded ==
    [][/\ ReturnsH2 =>
            IF NoOverrideInSheet(idx, REQUIRED_COLUMNS.h2_override)
            THEN /\ attempt < MaxAttempts
                 /\ idx \in genRows'
                 /\ h2_heading' \in GeneratedHeadings(Keyword(df[idx]),
                                                     ForbiddenH2(Keyword(df[idx])))
            ELSE NoGeneratorCall
       /\ ReturnsH3 =>
            IF NoOverrideInSheet(idx, REQUIRED_COLUMNS.h3_override)
            THEN /\ attempt < MaxAttempts
                 /\ idx \in genRows'
                 /\ h3_heading' \in GeneratedHeadings(Keyword(df[idx]),
                                                     ForbiddenH3(Keyword(df[idx]), h2_heading))
            ELSE NoGeneratorCall
       /\ ReturnsH2Paragraph =>
            /\ attempt < MaxAttempts
            /\ idx \in genRows'
            /\ h2_paragraph' \in NormalizedResponses
            /\ WithinBounds(WordCount(h2_paragraph'), 200) \/ attempt = MaxAttempts - 1
       /\ ReturnsH3Paragraph =>
            /\ attempt < MaxAttempts
            /\ idx \in genRows'
            /\ h3_paragraph' \in NormalizedResponses
            /\ WithinBounds(WordCount(h3_paragraph'), 150) \/ attempt = MaxAttempts - 1
       /\ LoopsAgain =>
            /\ attempt' = attempt + 1
            /\ attempt' < MaxAttempts
            /\ idx \in genRows'
      ]_vars

\* a cycle of the background runner begins in this step
BackgroundCycleBegins ==
    probe.fn = "_background_runner" /\ probe'.cycles = probe.cycles + 1

\* C22: the background runner has at most one run in progress, and its
\* task never ends; a cycle begins only when no run of the runner is in
\* progress and, after the first cycle, the whole sleep interval has passed
\* since the previous cycle ended; and a cycle that failed is followed by
\* another cycle.
C22_BackgroundRunnerSequential ==
    /\ [](probe.fn = "_background_runner" =>
            /\ probe.running <= 1
            /\ probe.running = 1 <=> probe.task = "run"
            /\ probe.task # "dead"
            /\ (probe.started /\ probe.enable_background_runner) => probe.task # "none")
    /\ [][BackgroundCycleBegins =>
            /\ probe.running = 0
            /\ probe.cycles > 0 =>
                 /\ probe.task = "try"
                 /\ probe.slept >= probe.poll_interval_minutes]_vars
    /\ (/\ probe.fn = "_background_runner"
        /\ probe.last \in {"Exception", "HTTPException"}
        /\ probe.cycles < MaxCycles) ~> (probe.task = "run" /\ probe.cycles > 1)

\* a cycle is running after a cycle that failed and a sleep of two minutes
C22_Witness ==
    /\ probe.fn = "_background_runner"
    /\ probe.task = "run"
    /\ probe.last = "Exception"
    /\ probe.cycles = 2
    /\ probe.slept = 2

\* worker w's call looks the title up in this step
LooksUp(w) == probe.call[w].pc = "idle" /\ probe'.call[w].pc = "found"

\* worker w's call ends in this step, after its lookup
CallEnds(w) == probe.call[w].pc = "found" /\ probe'.call[w].pc = "idle"

\* the store after the update of the collection with the id
Updated(store, id, title, body) ==
    [k \in DOMAIN store |-> IF store[k].id = id THEN Collection(id, title, body)
                            ELSE store[k]]

\* C23: an upsert_collection call is one lookup, which writes nothing and
\* finds a collection exactly when the store has one with the title,
\* followed by one step that ends the call: an update of the collection
\* found and of no other (never a create), or a create when none was found
\* (never an update), each returning the id written, or an error that
\* returns no id and leaves the store as it is; a failed lookup ends the
\* call with an error, no write and no id; the store changes in no other way.
C23_OneLookupThenOneWrite ==
    [][probe.fn = "upsert_collection" =>
         /\ \A w \in Workers :
              /\ LooksUp(w) =>
                   /\ probe'.store = probe.store
                   /\ probe'.call[w].existing_id # 0
                        <=> \E k \in DOMAIN probe.store :
                              probe.store[k].title = probe'.call[w].title
                   /\ probe'.call[w].existing_id # 0
                        => \E k \in DOMAIN probe.store :
                              /\ probe.store[k].id = probe'.call[w].existing_id
                              /\ probe.store[k].title = probe'.call[w].title
              /\ CallEnds(w) =>
                   LET c == probe.call[w]
                   IN IF probe'.raised[w]
                      THEN probe'.store = probe.store /\ probe'.returned[w] = 0
                      ELSE IF c.existing_id # 0
                      THEN /\ probe'.store = Updated(probe.store, c.existing_id, c.title,
                                                     c.html_body)
                           /\ probe'.returned[w] = c.existing_id
                      ELSE /\ probe'.store = Append(probe.store,
                                                    Collection(probe'.returned[w], c.title,
                                                               c.html_body))
                           /\ \A k \in DOMAIN probe.store :
                                probe.store[k].id # probe'.returned[w]
                           /\ probe'.returned[w] # 0
         /\ probe'.store # probe.store => \E w \in Workers : CallEnds(w)
         /\ (probe'.upserts # probe.upserts /\ \A w \in Workers : ~LooksUp(w)) =>
              /\ probe'.store = probe.store
              /\ probe'.call = probe.call
              /\ \E w \in Workers : probe'.raised[w] /\ probe'.returned[w] = 0
      ]_vars

\* the one collection of the store was updated by a call that returned its
\* id, and the other worker's call ended with an error and no id
C23_Witness ==
    /\ probe.fn = "upsert_collection"
    /\ probe.store = <<Collection(1, <<"a">>, <<"y">>)>>
    /\ probe.returned["w1"] = 1
    /\ ~probe.raised["w1"]
    /\ probe.raised["w2"]
    /\ probe.returned["w2"] = 0
    /\ probe.upserts = 2

\* the recognized, string-valued, non-empty-after-trim entries of the store
PersistedOverrides ==
    IF prompt_file.exists /\ prompt_file.json = "object"
    THEN {Entry(e.key, Strip(e.s)) :
            e \in {x \in prompt_file.data : x.key \in PromptKeys /\ x.str /\ Strip(x.s) # <<>>}}
    ELSE {}

\* C24: whatever calls were made on the PromptManager, its cache, once
\* loaded, holds the recognized, string-valued, non-empty-after-trim entries
\* of the persisted store; a save whose write fails leaves the cache as it
\* was; and no call fails while loading the store, whatever the store holds.
C24_CacheMirrorsStore ==
    /\ [](overrides.loaded => overrides.map = PersistedOverrides)
    /\ [][(pm_call'.fn = "save_overrides" /\ pm_call'.raised # "") =>
             overrides' = overrides]_vars
    /\ [](pm_call.raised \in {"", "KeyError", "OSError"})

====
